---- MODULE Spec2Model ----
(***************************************************************************)
(* Model of software/co2/co2.py: the GPS sources (GpsdGps, I2CGps,         *)
(* DummyGps), the last-fix cache of BaseGps.get_data and the sampling loop *)
(* of main.                                                                *)
(*                                                                         *)
(* Coordinates and altitudes are integers in thousandths of a unit, so     *)
(* that rounding to GPS_DIGITS_PRECISION decimals is a real computation.   *)
(* Time is in seconds.  An Optional value is a sequence of length 0 (None) *)
(* or 1.                                                                   *)
(***************************************************************************)
EXTENDS Integers, Sequences, FiniteSets, TLC

\* ------------------------------------------------------------------ bounds
\* Latest wall-clock time the model explores.
MaxNow == 700

\* The counters of consecutive events stop counting at these values.
MaxStaleCounted == 2

MaxCallsCounted == 2

\* Time that may pass during one time.sleep (0: less than a second).
SleepDurations == {0, 300, 350}

\* ------------------------------------------------------- program constants
GPS_FIX_MAX_AGE == 600

GPS_DIGITS_PRECISION == 2

\* scd.ambient_pressure = 1007, before the loop
INITIAL_AMBIENT_PRESSURE == 1007

\* Decimal digits carried by a raw coordinate of the model.
RawDigits == 3

\* os.getenv returns None for a variable that is not set.
Unset == "<unset>"

GpsSourceType == {"dummy", "gpsd", "i2c"}

DEFAULT_GPS_SOURCE == "gpsd"

GPS_SOURCE_MAP ==
    [d \in {"beaglebone-green-gateway", "raspberrypicm4-ioboard"} |-> "i2c"]

\* ------------------------------------------------------------ environment
\* Values of the GPS_SOURCE environment variable.
Overrides == {Unset, "dummy", "gpsd", "i2c", "GPSD"}

\* Values of the RESIN_DEVICE_TYPE environment variable.
DeviceTypes == {Unset, "beaglebone-green-gateway", "raspberrypicm4-ioboard",
                "raspberrypi4-64"}

\* DUMMY_GPS_LATITUDE / _LONGITUDE / _ALTITUDE (default "0").
DummyConfigs == { [latitude |-> 0, longitude |-> 0, altitude |-> 0],
                  [latitude |-> 37425, longitude |-> -122084, altitude |-> 30000] }

\* What the GPS hardware or daemon reports: raw position and altitude.
Packets == { [latitude |-> 37421, longitude |-> -122084, altitude |-> <<30000>>],
             [latitude |-> 125, longitude |-> 375, altitude |-> <<>>] }

\* Values one read of dps310.pressure can give.
Pressures == {-5, 0, 1013}

None == <<>>

Some(x) == <<x>>

\* ---------------------------------------------------------------- helpers
RECURSIVE Pow10(_)
Pow10(n) == IF n <= 0 THEN 1 ELSE 10 * Pow10(n - 1)

\* Rounding that drops the digits beyond ndigits instead of rounding them.
round_down(x, ndigits) ==
    LET q == Pow10(RawDigits - ndigits)
    IN  x - (x % q)

\* Python round(x, ndigits) on a value given in 10^-RawDigits units:
\* nearest multiple of 10^(RawDigits - ndigits), ties to the even multiple.
round(x, ndigits) ==
    LET q  == Pow10(RawDigits - ndigits)
        r  == x % q
        lo == x - r
    IN  IF 2 * r < q THEN lo
        ELSE IF 2 * r > q THEN lo + q
        ELSE IF (lo \div q) % 2 = 0 THEN lo ELSE lo + q

\* GpsData(latitude, longitude, altitude), acquired_at defaulting to now().
GpsData(lat, lon, alt, t) ==
    [latitude |-> lat, longitude |-> lon, altitude |-> alt, acquired_at |-> t]

VARIABLES
    pc,               \* position of main
    error,            \* exception that escaped main, "none" if none
    override,         \* os.getenv("GPS_SOURCE")
    device_type,      \* RESIN_DEVICE_TYPE
    enable_influxdb,  \* ENABLE_INFLUXDB
    dummy_cfg,        \* DUMMY_GPS_* environment
    gps_source,       \* variant chosen by main, "none" before
    last_fix,         \* BaseGps._last_fix
    is_valid,         \* GpsdGps._is_valid
    gps_data,         \* main's local gps_data
    ambient_pressure, \* scd.ambient_pressure
    now,              \* datetime.now()
    slept,            \* time.sleep calls since the loop head was reached
    data_ready,       \* scd.data_available as read since the last sleep
    result,           \* what get_data did since the last sleep
    acq,              \* how the most recent _get_data ended
    acquired,         \* the fix the most recent _get_data returned, if any
    connected,        \* whether the most recent _get_data called _connect
    raw,              \* the packet the most recent _get_data read, if any
    stale_raises,     \* too-old errors raised since the last acquired fix
    daemon_ok,        \* gpsd is reachable and its fetches succeed
    linked,           \* the gpsd client holds a connection to the daemon
    calls_since_ok,   \* get_data calls made since daemon_ok last became true
    influx_out,       \* points written to InfluxDB since the last sleep
    mqtt_out          \* records logged for MQTT since the last sleep

vars == <<pc, error, override, device_type, enable_influxdb, dummy_cfg,
          gps_source, last_fix, is_valid, gps_data, ambient_pressure, now,
          slept, data_ready, result, acq, acquired, connected, raw,
          stale_raises, daemon_ok, linked, calls_since_ok, influx_out,
          mqtt_out>>

\* The positioning daemon and the client library's connection to it.
daemonVars == <<daemon_ok, linked, calls_since_ok>>

cfgVars == <<override, device_type, enable_influxdb, dummy_cfg>>

\* State of main after the sensors are constructed and before the GPS source
\* is selected.
Init ==
    /\ pc = "select"
    /\ error = "none"
    /\ override \in Overrides
    /\ device_type \in DeviceTypes
    /\ enable_influxdb \in BOOLEAN
    /\ dummy_cfg \in DummyConfigs
    /\ gps_source = "none"
    /\ last_fix = None
    /\ is_valid = FALSE
    /\ gps_data = None
    /\ ambient_pressure = INITIAL_AMBIENT_PRESSURE
    /\ now = 0
    /\ slept = 0
    /\ data_ready = "unknown"
    /\ result = "none"
    /\ acq = "none"
    /\ acquired = None
    /\ connected = FALSE
    /\ raw = None
    /\ stale_raises = 0
    /\ daemon_ok = FALSE
    /\ linked = FALSE
    /\ calls_since_ok = 0
    /\ influx_out = <<>>
    /\ mqtt_out = <<>>

\* ------------------------------------------------------------ GPS sources
\* get_gps_source that falls back to the device table when the override
\* names no source.
get_gps_source_lenient(ovr, dev) ==
    IF ovr \in GpsSourceType
    THEN Some(ovr)
    ELSE IF dev \in DOMAIN GPS_SOURCE_MAP
         THEN Some(GPS_SOURCE_MAP[dev])
         ELSE Some(DEFAULT_GPS_SOURCE)

\* get_gps_source(): the override, when set, is converted with
\* GpsSourceType(override), which raises ValueError (None here) for a value
\* that is no member; otherwise GPS_SOURCE_MAP.get(device, DEFAULT_GPS_SOURCE).
get_gps_source(ovr, dev) ==
    IF ovr # Unset
    THEN IF ovr \in GpsSourceType THEN Some(ovr) ELSE None
    ELSE IF dev \in DOMAIN GPS_SOURCE_MAP
         THEN Some(GPS_SOURCE_MAP[dev])
         ELSE Some(DEFAULT_GPS_SOURCE)

\* GpsdGps._connect: connect_ok says whether gpsd.connect() returns.  The
\* except clause stores False and re-raises; the finally clause then stores
\* True on both paths.
GpsdGps_connect(valid, connect_ok) ==
    LET after_except  == IF connect_ok THEN valid ELSE FALSE
        after_finally == TRUE
    IN  [raised |-> ~connect_ok, is_valid |-> after_finally]

\* GpsdGps._get_data that connects on every call, whatever the flag.
GpsdGps_get_data_reconnects(valid, connect_ok, fetch, t) ==
    LET c == GpsdGps_connect(valid, connect_ok)
    IN  IF c.raised
        THEN [fix |-> None, acq |-> "connect_failed",
              is_valid |-> c.is_valid, connected |-> TRUE]
        ELSE IF fetch = None
        THEN [fix |-> None, acq |-> "fetch_failed",
              is_valid |-> FALSE, connected |-> TRUE]
        ELSE [fix |-> Some(GpsData(round(fetch[1].latitude,
                                         GPS_DIGITS_PRECISION),
                                   round(fetch[1].longitude,
                                         GPS_DIGITS_PRECISION),
                                   fetch[1].altitude, t)),
              acq |-> "ok", is_valid |-> c.is_valid, connected |-> TRUE]

\* GpsdGps._get_data that leaves the flag alone when the fetch raises.
GpsdGps_get_data_sticky(valid, connect_ok, fetch, t) ==
    LET c      == GpsdGps_connect(valid, connect_ok)
        valid1 == IF ~valid THEN c.is_valid ELSE valid
    IN  IF ~valid /\ c.raised
        THEN [fix |-> None, acq |-> "connect_failed",
              is_valid |-> valid1, connected |-> TRUE]
        ELSE IF fetch = None
        THEN [fix |-> None, acq |-> "fetch_failed",
              is_valid |-> valid1, connected |-> ~valid]
        ELSE [fix |-> Some(GpsData(round(fetch[1].latitude,
                                         GPS_DIGITS_PRECISION),
                                   round(fetch[1].longitude,
                                         GPS_DIGITS_PRECISION),
                                   fetch[1].altitude, t)),
              acq |-> "ok", is_valid |-> valid1, connected |-> ~valid]

\* GpsdGps._get_data: fetch is None when gpsd.get_current() or the packet
\* accessors raise, Some(packet) otherwise.  An exception of _connect leaves
\* through line 134, outside the try block that resets the flag.
GpsdGps_get_data(valid, connect_ok, fetch, t) ==
    LET c      == GpsdGps_connect(valid, connect_ok)
        valid1 == IF ~valid THEN c.is_valid ELSE valid
    IN  IF ~valid /\ c.raised
        THEN [fix |-> None, acq |-> "connect_failed",
              is_valid |-> valid1, connected |-> TRUE]
        ELSE IF fetch = None
        THEN [fix |-> None, acq |-> "fetch_failed",
              is_valid |-> FALSE, connected |-> ~valid]
        ELSE [fix |-> Some(GpsData(round(fetch[1].latitude, GPS_DIGITS_PRECISION),
                                   round(fetch[1].longitude, GPS_DIGITS_PRECISION),
                                   fetch[1].altitude, t)),
              acq |-> "ok", is_valid |-> valid1, connected |-> ~valid]

\* I2CGps._get_data: hw is None when the module has no fix after update().
I2CGps_get_data(hw, t) ==
    IF hw = None
    THEN [fix |-> None, acq |-> "no_fix"]
    ELSE [fix |-> Some(GpsData(round(hw[1].latitude, GPS_DIGITS_PRECISION),
                               round(hw[1].longitude, GPS_DIGITS_PRECISION),
                               hw[1].altitude, t)),
          acq |-> "ok"]

\* DummyGps._get_data that rounds the configured coordinates as the other
\* sources round theirs.
DummyGps_get_data_rounded(cfg, t) ==
    [fix |-> Some(GpsData(round(cfg.latitude, GPS_DIGITS_PRECISION),
                          round(cfg.longitude, GPS_DIGITS_PRECISION),
                          Some(cfg.altitude), t)),
     acq |-> "ok"]

\* DummyGps._get_data: the configured values, as they are.
DummyGps_get_data(cfg, t) ==
    [fix |-> Some(GpsData(cfg.latitude, cfg.longitude, Some(cfg.altitude), t)),
     acq |-> "ok"]

OptPackets == {None} \cup {Some(p) : p \in Packets}

\* What gpsd.connect() and gpsd.get_current() can do in one _get_data call:
\* connect_ok and fetch as in GpsdGps_get_data.  While the daemon is healthy
\* connect succeeds, and a fetch over a connection to it succeeds.
GpsdInputs(valid, healthy, lnk) ==
    { in \in BOOLEAN \X OptPackets :
        /\ healthy => in[1]
        /\ (healthy /\ (lnk \/ (~valid /\ in[1]))) => in[2] # None }

\* Whether the client holds a connection after a _get_data call: a fetch
\* that succeeded went over one; a connect that was attempted made one or
\* failed; otherwise nothing changed.
LinkAfter(valid, connect_ok, fetch, lnk) ==
    IF ~valid /\ ~connect_ok THEN FALSE
    ELSE IF fetch # None THEN TRUE
    ELSE IF ~valid THEN connect_ok
    ELSE lnk

\* The result of a _get_data call, with the packet it read and the state of
\* the gpsd connection after it.
Acquisition(r, valid, conn, packet, lnk) ==
    [fix |-> r.fix, acq |-> r.acq, is_valid |-> valid, connected |-> conn,
     raw |-> IF r.fix # None THEN packet ELSE None, linked |-> lnk]

\* Every way self._get_data() of the selected source can end at time t.
Acquisitions(src, valid, cfg, t, healthy, lnk) ==
    IF src = "gpsd"
    THEN { LET r == GpsdGps_get_data(valid, in[1], in[2], t)
           IN  Acquisition(r, r.is_valid, r.connected, in[2],
                           LinkAfter(valid, in[1], in[2], lnk)) :
           in \in GpsdInputs(valid, healthy, lnk) }
    ELSE IF src = "i2c"
    THEN { Acquisition(I2CGps_get_data(hw, t), valid, FALSE, hw, lnk) :
           hw \in OptPackets }
    ELSE { Acquisition(DummyGps_get_data(cfg, t), valid, FALSE,
                       Some([latitude |-> cfg.latitude,
                             longitude |-> cfg.longitude,
                             altitude |-> Some(cfg.altitude)]), lnk) }

\* calls_since_ok after one more get_data call.
CallsCounted(n, healthy) ==
    IF ~healthy THEN 0
    ELSE IF n < MaxCallsCounted THEN n + 1 ELSE n

\* stale_raises after a get_data call that acquired got and raised raised.
StaleCounted(n, got, raised) ==
    IF got # None THEN 0
    ELSE IF raised = "stale" /\ n < MaxStaleCounted THEN n + 1
    ELSE n

\* get_data whose fallback re-stamps the cached fix with the call time.
get_data_restamp(last, got, t) ==
    LET age == t - last[1].acquired_at
    IN  IF got # None
        THEN [last_fix |-> got, raised |-> "none", value |-> got]
        ELSE IF last = None
        THEN [last_fix |-> last, raised |-> "waiting", value |-> None]
        ELSE IF age < GPS_FIX_MAX_AGE
        THEN LET f == Some([last[1] EXCEPT !.acquired_at = t])
             IN  [last_fix |-> f, raised |-> "none", value |-> f]
        ELSE [last_fix |-> last, raised |-> "stale", value |-> None]

\* get_data that still accepts a fix whose age equals the maximum.
get_data_inclusive(last, got, t) ==
    LET stored == IF got # None THEN got ELSE last
        age    == t - last[1].acquired_at
    IN  IF got = None /\ last # None /\ ~(age <= GPS_FIX_MAX_AGE)
        THEN [last_fix |-> stored, raised |-> "stale", value |-> None]
        ELSE IF stored = None
        THEN [last_fix |-> stored, raised |-> "waiting", value |-> None]
        ELSE [last_fix |-> stored, raised |-> "none", value |-> stored]

\* get_data that reports an empty cache as a fix that is too old.
get_data_no_first_fix_check(last, got, t) ==
    LET stored == IF got # None THEN got ELSE last
    IN  IF got = None /\ (last = None \/ ~(t - last[1].acquired_at < GPS_FIX_MAX_AGE))
        THEN [last_fix |-> stored, raised |-> "stale", value |-> None]
        ELSE [last_fix |-> stored, raised |-> "none", value |-> stored]

\* get_data that keeps a cached fix for as long as it is young enough.
get_data_keep_young(last, got, t) ==
    LET young  == last # None /\ t - last[1].acquired_at < GPS_FIX_MAX_AGE
        stored == IF got # None /\ ~young THEN got ELSE last
    IN  IF got = None /\ last # None /\ ~young
        THEN [last_fix |-> stored, raised |-> "stale", value |-> None]
        ELSE IF stored = None
        THEN [last_fix |-> stored, raised |-> "waiting", value |-> None]
        ELSE [last_fix |-> stored, raised |-> "none", value |-> stored]

\* get_data that re-arms the fallback when it raises the too-old error.
get_data_rearm(last, got, t) ==
    LET stored == IF got # None THEN got ELSE last
        age    == t - last[1].acquired_at
    IN  IF got = None /\ last # None /\ ~(age < GPS_FIX_MAX_AGE)
        THEN [last_fix |-> Some([last[1] EXCEPT !.acquired_at = t]),
              raised |-> "stale", value |-> None]
        ELSE IF stored = None
        THEN [last_fix |-> stored, raised |-> "waiting", value |-> None]
        ELSE [last_fix |-> stored, raised |-> "none", value |-> stored]

\* get_data that drops the cached fix when it raises the too-old error.
get_data_expire(last, got, t) ==
    LET stored == IF got # None THEN got ELSE last
        age    == t - last[1].acquired_at
    IN  IF got = None /\ last # None /\ ~(age < GPS_FIX_MAX_AGE)
        THEN [last_fix |-> None, raised |-> "stale", value |-> None]
        ELSE IF stored = None
        THEN [last_fix |-> stored, raised |-> "waiting", value |-> None]
        ELSE [last_fix |-> stored, raised |-> "none", value |-> stored]

\* BaseGps.get_data: got is the fix self._get_data() returned, None when it
\* raised; t is datetime.now().
get_data(last, got, t) ==
    LET stored == IF got # None THEN got ELSE last
        age    == t - last[1].acquired_at
    IN  IF got = None /\ last # None /\ ~(age < GPS_FIX_MAX_AGE)
        THEN [last_fix |-> stored, raised |-> "stale", value |-> None]
        ELSE IF stored = None
        THEN [last_fix |-> stored, raised |-> "waiting", value |-> None]
        ELSE [last_fix |-> stored, raised |-> "none", value |-> stored]

\* ---------------------------------------------------------------- actions
\* main, lines 239-253: the source is selected and the loop head reached.
SelectGps ==
    /\ pc = "select"
    /\ get_gps_source(override, device_type) # None
    /\ gps_source' = get_gps_source(override, device_type)[1]
    /\ pc' = "top"
    /\ UNCHANGED <<error, cfgVars, last_fix, is_valid, gps_data,
                   ambient_pressure, now, slept, data_ready, result, acq,
                   acquired, connected, raw, stale_raises, daemonVars,
                   influx_out, mqtt_out>>

\* main, line 240: GpsSourceType(override) raises ValueError out of main.
SelectGpsFails ==
    /\ pc = "select"
    /\ get_gps_source(override, device_type) = None
    /\ pc' = "crashed"
    /\ error' = "ValueError"
    /\ UNCHANGED <<cfgVars, gps_source, last_fix, is_valid, gps_data,
                   ambient_pressure, now, slept, data_ready, result, acq,
                   acquired, connected, raw, stale_raises, daemonVars,
                   influx_out, mqtt_out>>

\* main, line 258: time.sleep(POLL_INTERVAL_SECONDS) opens the iteration.
Sleep ==
    /\ pc = "top"
    /\ \E d \in SleepDurations :
          /\ now + d <= MaxNow
          /\ now' = now + d
    /\ slept' = slept + 1
    /\ data_ready' = "unknown"
    /\ result' = "none"
    /\ influx_out' = <<>>
    /\ mqtt_out' = <<>>
    /\ pc' = "check"
    /\ UNCHANGED <<error, cfgVars, gps_source, last_fix, is_valid, gps_data,
                   ambient_pressure, acq, acquired, connected, raw,
                   stale_raises, daemonVars>>

\* The no-data check without its continue: the cycle goes on to the GPS.
SkipNoData_fallthrough ==
    /\ pc = "check"
    /\ data_ready' = "no"
    /\ pc' = "gps"
    /\ UNCHANGED <<error, cfgVars, gps_source, last_fix, is_valid, gps_data,
                   ambient_pressure, now, slept, result, acq, acquired,
                   connected, raw, stale_raises, daemonVars, influx_out,
                   mqtt_out>>

\* The no-data check with the sleep at the bottom of the loop: continue
\* starts the next iteration at the check, without a sleep.
SkipNoData_busy ==
    /\ pc = "check"
    /\ data_ready' = "no"
    /\ pc' = "check"
    /\ slept' = 0
    /\ UNCHANGED <<error, cfgVars, gps_source, last_fix, is_valid, gps_data,
                   ambient_pressure, now, result, acq, acquired, connected,
                   raw, stale_raises, daemonVars, influx_out, mqtt_out>>

\* The no-data check with break in the place of continue.
SkipNoData_breaks ==
    /\ pc = "check"
    /\ data_ready' = "no"
    /\ pc' = "done"
    /\ slept' = 0
    /\ UNCHANGED <<error, cfgVars, gps_source, last_fix, is_valid, gps_data,
                   ambient_pressure, now, result, acq, acquired, connected,
                   raw, stale_raises, daemonVars, influx_out, mqtt_out>>

\* The no-data check placed after the call of gps.get_data(): the source is
\* queried, then the cycle is skipped.
SkipNoData_after_gps ==
    /\ pc = "check"
    /\ data_ready' = "no"
    /\ \E a \in Acquisitions(gps_source, is_valid, dummy_cfg, now,
                             daemon_ok, linked) :
          LET r == get_data(last_fix, a.fix, now)
          IN  /\ last_fix' = r.last_fix
              /\ gps_data' = IF r.raised = "none" THEN r.value ELSE gps_data
              /\ is_valid' = a.is_valid
              /\ acq' = a.acq
              /\ acquired' = a.fix
              /\ connected' = a.connected
              /\ raw' = a.raw
              /\ linked' = a.linked
              /\ calls_since_ok' = CallsCounted(calls_since_ok, daemon_ok)
              /\ stale_raises' = StaleCounted(stale_raises, a.fix, r.raised)
    /\ pc' = "top"
    /\ slept' = 0
    /\ UNCHANGED <<daemon_ok, error, cfgVars, gps_source, ambient_pressure,
                   now, result, influx_out, mqtt_out>>

\* main, lines 262-263: no new data, continue.
SkipNoData ==
    /\ pc = "check"
    /\ data_ready' = "no"
    /\ pc' = "top"
    /\ slept' = 0
    /\ UNCHANGED <<error, cfgVars, gps_source, last_fix, is_valid, gps_data,
                   ambient_pressure, now, result, acq, acquired, connected,
                   raw, stale_raises, daemonVars, influx_out, mqtt_out>>

\* main, line 262: new data is available.
DataReady ==
    /\ pc = "check"
    /\ data_ready' = "yes"
    /\ pc' = "gps"
    /\ UNCHANGED <<error, cfgVars, gps_source, last_fix, is_valid, gps_data,
                   ambient_pressure, now, slept, result, acq, acquired,
                   connected, raw, stale_raises, daemonVars, influx_out,
                   mqtt_out>>

\* main, lines 265-266: gps.get_data() returns a fix.
GpsReturns ==
    /\ pc = "gps"
    /\ \E a \in Acquisitions(gps_source, is_valid, dummy_cfg, now,
                             daemon_ok, linked) :
          LET r == get_data(last_fix, a.fix, now)
          IN  /\ r.raised = "none"
              /\ last_fix' = r.last_fix
              /\ gps_data' = r.value
              /\ result' = IF a.fix # None THEN "fresh" ELSE "cached"
              /\ is_valid' = a.is_valid
              /\ acq' = a.acq
              /\ acquired' = a.fix
              /\ connected' = a.connected
              /\ raw' = a.raw
              /\ linked' = a.linked
              /\ calls_since_ok' = CallsCounted(calls_since_ok, daemon_ok)
              /\ stale_raises' = StaleCounted(stale_raises, a.fix, r.raised)
    /\ pc' = "baro"
    /\ UNCHANGED <<daemon_ok, error, cfgVars, gps_source, ambient_pressure,
                   now, slept, data_ready, influx_out, mqtt_out>>

\* gps.get_data() raises and the except clause of main does not match.
GpsRaises_escapes ==
    /\ pc = "gps"
    /\ \E a \in Acquisitions(gps_source, is_valid, dummy_cfg, now,
                             daemon_ok, linked) :
          LET r == get_data(last_fix, a.fix, now)
          IN  /\ r.raised # "none"
              /\ last_fix' = r.last_fix
              /\ result' = r.raised
              /\ is_valid' = a.is_valid
              /\ acq' = a.acq
              /\ acquired' = a.fix
              /\ connected' = a.connected
              /\ raw' = a.raw
              /\ linked' = a.linked
              /\ calls_since_ok' = CallsCounted(calls_since_ok, daemon_ok)
              /\ stale_raises' = StaleCounted(stale_raises, a.fix, r.raised)
    /\ pc' = "crashed"
    /\ error' = "GpsError"
    /\ UNCHANGED <<daemon_ok, cfgVars, gps_source, gps_data,
                   ambient_pressure, now, slept, data_ready, influx_out,
                   mqtt_out>>

\* gps.get_data() raises and the except clause of main lacks its continue:
\* the cycle goes on with the gps_data of an earlier cycle, or ends main
\* with NameError when there is none.
GpsRaises_fallthrough ==
    /\ pc = "gps"
    /\ \E a \in Acquisitions(gps_source, is_valid, dummy_cfg, now,
                             daemon_ok, linked) :
          LET r == get_data(last_fix, a.fix, now)
          IN  /\ r.raised # "none"
              /\ last_fix' = r.last_fix
              /\ result' = r.raised
              /\ is_valid' = a.is_valid
              /\ acq' = a.acq
              /\ acquired' = a.fix
              /\ connected' = a.connected
              /\ raw' = a.raw
              /\ linked' = a.linked
              /\ calls_since_ok' = CallsCounted(calls_since_ok, daemon_ok)
              /\ stale_raises' = StaleCounted(stale_raises, a.fix, r.raised)
    /\ pc' = IF gps_data # None THEN "baro" ELSE "crashed"
    /\ error' = IF gps_data # None THEN error ELSE "NameError"
    /\ UNCHANGED <<daemon_ok, cfgVars, gps_source, gps_data,
                   ambient_pressure, now, slept, data_ready, influx_out,
                   mqtt_out>>

\* main, lines 265-272: gps.get_data() raises; logged, continue.
GpsRaises ==
    /\ pc = "gps"
    /\ \E a \in Acquisitions(gps_source, is_valid, dummy_cfg, now,
                             daemon_ok, linked) :
          LET r == get_data(last_fix, a.fix, now)
          IN  /\ r.raised # "none"
              /\ last_fix' = r.last_fix
              /\ result' = r.raised
              /\ is_valid' = a.is_valid
              /\ acq' = a.acq
              /\ acquired' = a.fix
              /\ connected' = a.connected
              /\ raw' = a.raw
              /\ linked' = a.linked
              /\ calls_since_ok' = CallsCounted(calls_since_ok, daemon_ok)
              /\ stale_raises' = StaleCounted(stale_raises, a.fix, r.raised)
    /\ pc' = "top"
    /\ slept' = 0
    /\ UNCHANGED <<daemon_ok, error, cfgVars, gps_source, gps_data,
                   ambient_pressure, now, data_ready, influx_out, mqtt_out>>

\* main, lines 280-281: the barometer is read for the test and read again
\* for the value that is stored.
SetPressure ==
    /\ pc = "baro"
    /\ \E tested \in Pressures, stored \in Pressures :
          ambient_pressure' = IF tested > 0 THEN stored ELSE ambient_pressure
    /\ pc' = "publish"
    /\ UNCHANGED <<error, cfgVars, gps_source, last_fix, is_valid, gps_data,
                   now, slept, data_ready, result, acq, acquired, connected,
                   raw, stale_raises, daemonVars, influx_out, mqtt_out>>

\* The fields of a record that come from the fix and from the sensors.
Record(fix, baro, amb) ==
    [lat |-> fix.latitude, lon |-> fix.longitude, alt |-> fix.altitude,
     baro_pressure |-> baro, scd30_pressure_mbar |-> amb]

\* The publishing step without the test of ENABLE_INFLUXDB.
Publish_always_influx ==
    /\ pc = "publish"
    /\ \E b1 \in Pressures, b2 \in Pressures :
          /\ influx_out' = Append(influx_out,
                                  Record(gps_data[1], b1, ambient_pressure))
          /\ mqtt_out' = Append(mqtt_out,
                                Record(gps_data[1], b2, ambient_pressure))
    /\ pc' = "top"
    /\ slept' = 0
    /\ UNCHANGED <<error, cfgVars, gps_source, last_fix, is_valid, gps_data,
                   ambient_pressure, now, data_ready, result, acq, acquired,
                   connected, raw, stale_raises, daemonVars>>

\* main, lines 284-317: the point is written to InfluxDB when enabled, then
\* the record is logged for the MQTT broker; end of the iteration.
Publish ==
    /\ pc = "publish"
    /\ \E b1 \in Pressures, b2 \in Pressures :
          /\ influx_out' = IF enable_influxdb
                           THEN Append(influx_out,
                                       Record(gps_data[1], b1, ambient_pressure))
                           ELSE influx_out
          /\ mqtt_out' = Append(mqtt_out,
                                Record(gps_data[1], b2, ambient_pressure))
    /\ pc' = "top"
    /\ slept' = 0
    /\ UNCHANGED <<error, cfgVars, gps_source, last_fix, is_valid, gps_data,
                   ambient_pressure, now, data_ready, result, acq, acquired,
                   connected, raw, stale_raises, daemonVars>>

\* main, line 301: write_api.write raises; nothing in the loop catches it.
InfluxWriteFails ==
    /\ pc = "publish"
    /\ enable_influxdb
    /\ pc' = "crashed"
    /\ error' = "SinkError"
    /\ UNCHANGED <<cfgVars, gps_source, last_fix, is_valid, gps_data,
                   ambient_pressure, now, slept, data_ready, result, acq,
                   acquired, connected, raw, stale_raises, daemonVars,
                   influx_out, mqtt_out>>

\* main, lines 301-315: the point was written to InfluxDB and a sensor read
\* for the MQTT record raises; nothing in the loop catches it.
SensorReadFailsAfterWrite ==
    /\ pc = "publish"
    /\ enable_influxdb
    /\ \E b1 \in Pressures :
          influx_out' = Append(influx_out,
                               Record(gps_data[1], b1, ambient_pressure))
    /\ pc' = "crashed"
    /\ error' = "SensorError"
    /\ UNCHANGED <<cfgVars, gps_source, last_fix, is_valid, gps_data,
                   ambient_pressure, now, slept, data_ready, result, acq,
                   acquired, connected, raw, stale_raises, daemonVars,
                   mqtt_out>>

\* main, lines 262, 280-315: a read of the SCD30 or of the DPS310 raises;
\* nothing in the loop catches it.
SensorReadFails ==
    /\ pc \in {"check", "baro", "publish"}
    /\ pc' = "crashed"
    /\ error' = "SensorError"
    /\ UNCHANGED <<cfgVars, gps_source, last_fix, is_valid, gps_data,
                   ambient_pressure, now, slept, data_ready, result, acq,
                   acquired, connected, raw, stale_raises, daemonVars,
                   influx_out, mqtt_out>>

\* gpsd becomes reachable and its fetches succeed from now on.
DaemonRecovers ==
    /\ gps_source = "gpsd"
    /\ pc # "crashed"
    /\ ~daemon_ok
    /\ daemon_ok' = TRUE
    /\ calls_since_ok' = 0
    /\ UNCHANGED <<pc, error, cfgVars, gps_source, last_fix, is_valid,
                   gps_data, ambient_pressure, now, slept, data_ready, result,
                   acq, acquired, connected, raw, stale_raises, linked,
                   influx_out, mqtt_out>>

\* gpsd stops or loses its fix; a connection to it is gone.
DaemonFails ==
    /\ gps_source = "gpsd"
    /\ pc # "crashed"
    /\ daemon_ok
    /\ daemon_ok' = FALSE
    /\ linked' = FALSE
    /\ calls_since_ok' = 0
    /\ UNCHANGED <<pc, error, cfgVars, gps_source, last_fix, is_valid,
                   gps_data, ambient_pressure, now, slept, data_ready, result,
                   acq, acquired, connected, raw, stale_raises, influx_out,
                   mqtt_out>>

\* The connection to a daemon that is not healthy is lost.
LinkLost ==
    /\ gps_source = "gpsd"
    /\ pc # "crashed"
    /\ ~daemon_ok
    /\ linked
    /\ linked' = FALSE
    /\ UNCHANGED <<pc, error, cfgVars, gps_source, last_fix, is_valid,
                   gps_data, ambient_pressure, now, slept, data_ready, result,
                   acq, acquired, connected, raw, stale_raises, daemon_ok,
                   calls_since_ok, influx_out, mqtt_out>>

Next ==
    \/ SelectGps
    \/ SelectGpsFails
    \/ Sleep
    \/ SkipNoData
    \/ DataReady
    \/ GpsReturns
    \/ GpsRaises
    \/ SetPressure
    \/ Publish
    \/ InfluxWriteFails
    \/ SensorReadFails
    \/ SensorReadFailsAfterWrite
    \/ DaemonRecovers
    \/ DaemonFails
    \/ LinkLost

Spec == Init /\ [][Next]_vars

TypeOK ==
    /\ pc \in {"select", "top", "check", "gps", "baro", "publish", "crashed"}
    /\ error \in {"none", "ValueError", "SinkError", "SensorError"}
    /\ gps_source \in GpsSourceType \cup {"none"}
    /\ Len(last_fix) <= 1
    /\ is_valid \in BOOLEAN
    /\ now \in 0..MaxNow
    /\ slept \in 0..1
    /\ Len(acquired) <= 1
    /\ Len(raw) <= 1
    /\ stale_raises \in 0..MaxStaleCounted
    /\ daemon_ok \in BOOLEAN
    /\ linked \in BOOLEAN
    /\ calls_since_ok \in 0..MaxCallsCounted

\* ----------------------------------------------------------------- claims
\* A step of main that calls gps.get_data().
GpsStep == pc = "gps" /\ pc' # "gps"

AcquisitionFailures == {"connect_failed", "fetch_failed", "no_fix"}

\* C1: when the acquisition fails while the cached fix is younger than
\* GPS_FIX_MAX_AGE, get_data returns the cached fix with all four fields
\* unchanged, keeps it cached, and raises nothing.
C1_YoungFixReturned ==
    [][ ( /\ GpsStep
          /\ acq' \in AcquisitionFailures
          /\ last_fix # None
          /\ now - last_fix[1].acquired_at < GPS_FIX_MAX_AGE )
        => ( /\ pc' = "baro"
             /\ result' = "cached"
             /\ gps_data' = last_fix
             /\ last_fix' = last_fix ) ]_vars

\* A cached fix acquired earlier was returned after a failed acquisition.
C1_Witness ==
    /\ result = "cached"
    /\ acq \in AcquisitionFailures
    /\ gps_data # None
    /\ gps_data = last_fix
    /\ now - gps_data[1].acquired_at = 300

\* C2: when the acquisition fails while the cached fix is GPS_FIX_MAX_AGE old
\* or older (equality included), get_data raises the too-old error and
\* returns nothing.
C2_OldFixRaises ==
    [][ ( /\ GpsStep
          /\ acq' \in AcquisitionFailures
          /\ last_fix # None
          /\ now - last_fix[1].acquired_at >= GPS_FIX_MAX_AGE )
        => ( /\ result' = "stale"
             /\ pc' = "top"
             /\ gps_data' = gps_data ) ]_vars

\* The too-old error was raised for a fix whose age equals the maximum.
C2_Witness ==
    /\ result = "stale"
    /\ acq \in AcquisitionFailures
    /\ last_fix # None
    /\ now - last_fix[1].acquired_at = GPS_FIX_MAX_AGE

\* C3: while last_fix is empty, a get_data call whose acquisition fails
\* raises "Waiting for first fix" and returns nothing, for every kind of
\* failure and every such call.
C3_NoFixRaisesWaiting ==
    [][ ( /\ GpsStep
          /\ acq' \in AcquisitionFailures
          /\ last_fix = None )
        => ( /\ result' = "waiting"
             /\ pc' = "top"
             /\ last_fix' = None
             /\ gps_data' = gps_data ) ]_vars

\* "Waiting for first fix" was raised after a failed daemon connect, in a
\* cycle later than the first one.
C3_Witness ==
    /\ result = "waiting"
    /\ acq = "connect_failed"
    /\ last_fix = None
    /\ now > 0

\* C4: when the acquisition succeeds, get_data stores the fix just acquired
\* as last_fix and returns that fix.
C4_FreshFixStoredAndReturned ==
    [][ ( GpsStep /\ acq' = "ok" )
        => ( /\ acquired' # None
             /\ last_fix' = acquired'
             /\ gps_data' = acquired'
             /\ result' = "fresh"
             /\ pc' = "baro" ) ]_vars

\* A fix acquired after some time has passed was stored and returned.
C4_Witness ==
    /\ result = "fresh"
    /\ acq = "ok"
    /\ acquired # None
    /\ last_fix = acquired
    /\ gps_data = acquired
    /\ acquired[1].acquired_at = 650

InCycle == pc \in {"check", "gps", "baro", "publish"}

\* C5: in a cycle in which get_data raises, no record reaches a sink, no
\* exception leaves the loop, and the loop is back at its head, ready to
\* sleep for the next cycle.
C5_GpsFailureSkipsCycle ==
    result \in {"stale", "waiting"}
        => ( /\ influx_out = <<>>
             /\ mqtt_out = <<>>
             /\ error = "none"
             /\ pc = "top"
             /\ ENABLED Sleep )

\* get_data raised for a fix that is too old, after an earlier cycle had
\* used that fix.
C5_Witness ==
    /\ result = "stale"
    /\ pc = "top"
    /\ gps_data # None
    /\ influx_out = <<>>
    /\ mqtt_out = <<>>

\* C6: in a cycle in which the CO2 sensor has no new data, no record reaches
\* a sink, no exception leaves the loop, and the loop is back at its head,
\* ready to sleep for the next cycle.
C6_NoDataSkipsCycle ==
    data_ready = "no"
        => ( /\ influx_out = <<>>
             /\ mqtt_out = <<>>
             /\ error = "none"
             /\ pc = "top"
             /\ ENABLED Sleep )

\* A cycle was skipped for want of data after earlier cycles had acquired a
\* fix.
C6_Witness ==
    /\ data_ready = "no"
    /\ pc = "top"
    /\ last_fix # None
    /\ now > last_fix[1].acquired_at

\* C7: the loop never stores a non-positive value in scd.ambient_pressure:
\* the step at lines 280-281 either leaves it as it was or stores a value
\* greater than 0.
C7_AmbientPressureStaysPositive ==
    [][ pc = "baro"
        => ( ambient_pressure' = ambient_pressure \/ ambient_pressure' > 0 )
      ]_vars

\* C8: every iteration starts with the sleep: whatever the position inside
\* an iteration, exactly one sleep has happened since the loop head was
\* reached, and none has happened yet at the loop head.
C8_OneSleepPerCycle ==
    /\ InCycle => slept = 1
    /\ pc = "top" => slept = 0

\* An iteration that follows cycles which queried the GPS is under way and
\* has slept exactly once.
C8_Witness ==
    /\ pc = "check"
    /\ slept = 1
    /\ acq # "none"
    /\ now = 650

KnownDevices == {"beaglebone-green-gateway", "raspberrypicm4-ioboard"}

\* C9: once main is past the selection, the source is the one the override
\* names when it is set, else the one of the device table or its default, and
\* stays so; an override that names no source ends main with ValueError
\* before any cycle has run and any record was emitted.
C9_SourceSelectedOnce ==
    pc # "select"
        => /\ override \in GpsSourceType => gps_source = override
           /\ (override = Unset /\ device_type \in KnownDevices)
                 => gps_source = "i2c"
           /\ (override = Unset /\ device_type \notin KnownDevices)
                 => gps_source = "gpsd"
           /\ override \notin (GpsSourceType \cup {Unset})
                 => /\ pc = "crashed"
                    /\ error = "ValueError"
                    /\ gps_source = "none"
                    /\ slept = 0
                    /\ data_ready = "unknown"
                    /\ result = "none"
                    /\ influx_out = <<>>
                    /\ mqtt_out = <<>>

\* main ended with ValueError for an override that names no source, on a
\* device the table knows.
C9_Witness ==
    /\ override = "GPSD"
    /\ device_type = "beaglebone-green-gateway"
    /\ pc = "crashed"
    /\ error = "ValueError"

\* C10: in GpsdGps, after a failed acquisition (connect or fetch), the
\* connection flag is False.
C10_FlagFalseAfterFailure ==
    (gps_source = "gpsd" /\ acq \in {"connect_failed", "fetch_failed"})
        => ~is_valid

\* C11: with the DummyGps source every get_data call succeeds and returns
\* the configured latitude, longitude and altitude, so it never raises.
C11_DummyNeverFails ==
    [][ (GpsStep /\ gps_source = "dummy")
        => ( /\ acq' = "ok"
             /\ result' = "fresh"
             /\ pc' = "baro"
             /\ gps_data' # None
             /\ gps_data'[1].latitude = dummy_cfg.latitude
             /\ gps_data'[1].longitude = dummy_cfg.longitude
             /\ gps_data'[1].altitude = Some(dummy_cfg.altitude) ) ]_vars

\* A DummyGps call, later than the first one, returned a configured latitude
\* that has more decimals than GPS_DIGITS_PRECISION.
C11_Witness ==
    /\ gps_source = "dummy"
    /\ result = "fresh"
    /\ gps_data # None
    /\ gps_data[1].latitude = 37425
    /\ gps_data[1].acquired_at = 650

\* C12: in a run of failed acquisitions after a fix acquired at t0, a call
\* before t0 + GPS_FIX_MAX_AGE returns that fix, a call at or after it raises
\* the too-old error, the cached fix stays as it is, the clock does not go
\* back, and once the too-old error was raised every failed acquisition
\* raises it again until a fix is acquired.
C12_FallbackThenStaleForGood ==
    [][ /\ now' >= now
        /\ ( ( /\ GpsStep
               /\ acq' \in AcquisitionFailures
               /\ last_fix # None )
             => ( /\ last_fix' = last_fix
                  /\ now < last_fix[1].acquired_at + GPS_FIX_MAX_AGE
                        => (result' = "cached" /\ gps_data' = last_fix)
                  /\ now >= last_fix[1].acquired_at + GPS_FIX_MAX_AGE
                        => result' = "stale"
                  /\ stale_raises > 0 => result' = "stale" ) ) ]_vars

\* The too-old error was raised twice in a row for the same fix.
C12_Witness ==
    /\ stale_raises = 2
    /\ result = "stale"
    /\ last_fix # None
    /\ last_fix[1].acquired_at = 0

\* C13: last_fix changes only in a get_data call whose acquisition succeeds,
\* and once it holds a fix it never becomes empty again.
C13_LastFixOnlySetOnSuccess ==
    [][ /\ last_fix' # last_fix => (GpsStep /\ acq' = "ok")
        /\ last_fix # None => last_fix' # None ]_vars

\* The too-old error was raised and the fix that is too old is still cached.
C13_Witness ==
    /\ result = "stale"
    /\ last_fix # None
    /\ now - last_fix[1].acquired_at > GPS_FIX_MAX_AGE
    /\ acq = "no_fix"

\* C14: in GpsdGps, a call that finds the flag True does not call connect;
\* when its fetch raises, the flag becomes False and the call returns no
\* fix, and the call after a failed fetch calls connect; when its fetch
\* succeeds, the flag stays True.
C14_FetchFailureForcesReconnect ==
    [][ /\ (GpsStep /\ gps_source = "gpsd" /\ is_valid)
           => ( /\ ~connected'
                /\ acq' \in {"ok", "fetch_failed"}
                /\ acq' = "fetch_failed"
                      => (~is_valid' /\ acquired' = None /\ result' # "fresh")
                /\ acq' = "ok" => (is_valid' /\ acquired' # None) )
        /\ (GpsStep /\ gps_source = "gpsd" /\ acq = "fetch_failed")
           => connected' ]_vars

\* A fetch raised on a connection that was marked valid.
C14_Witness ==
    /\ gps_source = "gpsd"
    /\ acq = "fetch_failed"
    /\ ~connected
    /\ ~is_valid
    /\ last_fix # None

\* The position of a fix, as a record carries it.
SamePosition(rec, fix) ==
    /\ rec.lat = fix.latitude
    /\ rec.lon = fix.longitude
    /\ rec.alt = fix.altitude

\* The sinks have received exactly one record of this cycle each, with the
\* position of gps_data: the MQTT log always, InfluxDB when it is enabled.
Delivered ==
    /\ Len(mqtt_out) = 1
    /\ SamePosition(mqtt_out[1], gps_data[1])
    /\ enable_influxdb
          => (Len(influx_out) = 1 /\ SamePosition(influx_out[1], gps_data[1]))
    /\ ~enable_influxdb => influx_out = <<>>

GpsReturned == data_ready = "yes" /\ result \in {"fresh", "cached"}

LoopStep ==
    \/ Sleep
    \/ SkipNoData
    \/ DataReady
    \/ GpsReturns
    \/ GpsRaises
    \/ SetPressure
    \/ Publish

Quantum == Pow10(RawDigits - GPS_DIGITS_PRECISION)

IsRounded(x) == x % Quantum = 0

\* x has GPS_DIGITS_PRECISION decimals and no such value is nearer to y.
IsRoundingOf(x, y) ==
    /\ IsRounded(x)
    /\ 2 * (x - y) <= Quantum
    /\ 2 * (y - x) <= Quantum

\* gps_data is what the packet just read gives: coordinates rounded,
\* altitude as read.
RoundedFromRaw ==
    /\ raw # None
    /\ IsRoundingOf(gps_data[1].latitude, raw[1].latitude)
    /\ IsRoundingOf(gps_data[1].longitude, raw[1].longitude)
    /\ gps_data[1].altitude = raw[1].altitude

\* C17 as stated: with every source, a fix returned by get_data has its
\* latitude and longitude rounded to GPS_DIGITS_PRECISION decimals and the
\* altitude as the source read it.
C17_EveryFixRounded ==
    (gps_source # "none" /\ gps_data # None)
        => /\ IsRounded(gps_data[1].latitude)
           /\ IsRounded(gps_data[1].longitude)
           /\ result = "fresh" => RoundedFromRaw

\* C17 amended: with GpsdGps and I2CGps, a fix returned by get_data has its
\* latitude and longitude rounded to GPS_DIGITS_PRECISION decimals and the
\* altitude as the source read it; with DummyGps the fix has the configured
\* latitude, longitude and altitude as they are, not rounded.
C17_HardwareFixRounded ==
    /\ (gps_source \in {"gpsd", "i2c"} /\ gps_data # None)
          => /\ IsRounded(gps_data[1].latitude)
             /\ IsRounded(gps_data[1].longitude)
             /\ result = "fresh" => RoundedFromRaw
    /\ (gps_source = "dummy" /\ gps_data # None)
          => /\ gps_data[1].latitude = dummy_cfg.latitude
             /\ gps_data[1].longitude = dummy_cfg.longitude
             /\ gps_data[1].altitude = Some(dummy_cfg.altitude)

\* I2CGps returned a fix whose coordinates differ from the ones read, with
\* no altitude.
C17_Witness ==
    /\ gps_source = "i2c"
    /\ result = "fresh"
    /\ RoundedFromRaw
    /\ gps_data[1].latitude # raw[1].latitude
    /\ gps_data[1].longitude # raw[1].longitude
    /\ gps_data[1].altitude = None

\* The records emitted since the last sleep.
Emitted == influx_out \o mqtt_out

\* C18: every record emitted in a cycle carries the position of the fix
\* get_data returned in that cycle, which is either the fix acquired in the
\* cycle or the cached last_fix, younger than GPS_FIX_MAX_AGE at the call.
C18_EmittedPositionIsUsable ==
    Emitted # <<>>
        => /\ gps_data # None
           /\ \A i \in 1..Len(Emitted) : SamePosition(Emitted[i], gps_data[1])
           /\ result \in {"fresh", "cached"}
           /\ result = "fresh"
                 => (gps_data = acquired /\ gps_data[1].acquired_at = now)
           /\ result = "cached"
                 => /\ acquired = None
                    /\ gps_data = last_fix
                    /\ now - gps_data[1].acquired_at < GPS_FIX_MAX_AGE

\* A record was emitted with the position of a cached fix 350 s old.
C18_Witness ==
    /\ mqtt_out # <<>>
    /\ result = "cached"
    /\ gps_data # None
    /\ now - gps_data[1].acquired_at = 350
    /\ SamePosition(mqtt_out[1], gps_data[1])

\* C19: with GpsdGps, once the daemon is reachable and its fetches succeed,
\* every get_data call but the first one made since then acquires a fix and
\* returns it, whatever the flag and the cache were when the daemon became
\* healthy.
C19_HealthyDaemonGivesFreshFix ==
    [][ ( /\ GpsStep
          /\ gps_source = "gpsd"
          /\ daemon_ok
          /\ calls_since_ok >= 1 )
        => ( /\ acq' = "ok"
             /\ result' = "fresh"
             /\ acquired' # None
             /\ gps_data' = acquired'
             /\ acquired'[1].acquired_at = now
             /\ pc' = "baro" ) ]_vars

\* The second call since the daemon became healthy had to connect, the
\* first one having failed on a flag that was True without a connection,
\* and returned a fresh fix.
C19_Witness ==
    /\ gps_source = "gpsd"
    /\ daemon_ok
    /\ calls_since_ok = 2
    /\ connected
    /\ result = "fresh"
    /\ is_valid

\* C20: in a cycle skipped for want of CO2 data the position source is not
\* queried and last_fix and the GpsdGps flag stay as they were; in a cycle
\* skipped because get_data raised, scd.ambient_pressure is not written.
C20_SkippedCycleLeavesStateAlone ==
    [][ /\ data_ready' = "no"
           => ( /\ result' = "none"
                /\ UNCHANGED <<last_fix, is_valid, gps_data, acq, acquired,
                               connected, raw, ambient_pressure>> )
        /\ result' \in {"stale", "waiting"}
           => ambient_pressure' = ambient_pressure ]_vars

\* A cycle was skipped for want of data with a GpsdGps connection marked
\* valid, a cached fix, and an ambient pressure written by an earlier cycle.
C20_Witness ==
    /\ data_ready = "no"
    /\ result = "none"
    /\ gps_source = "gpsd"
    /\ is_valid
    /\ last_fix # None
    /\ ambient_pressure = 1013

====
